---- MODULE Spec2Model ----
(***************************************************************************)
(* Model of src/app.py: the Flask backend of the Canvas accessibility      *)
(* tool.  One browser session talks to the routes /lti/login, /lti/launch, *)
(* /, POST /api/scan, GET /api/scan/<scan_id> and POST /api/export/<id>.   *)
(* Every route handler is one action; the session cookie is the only       *)
(* state the program keeps between requests.                               *)
(*                                                                         *)
(* Python dicts and JSON objects are functions whose DOMAIN is the set of  *)
(* keys present; JSON scalars are strings ("true", "false", "null", "",    *)
(* "c1"), so that a value that is supplied as false or null is different   *)
(* from a key that is omitted.                                             *)
(***************************************************************************)
EXTENDS Integers, Sequences, FiniteSets, TLC

VARIABLES
    session,        \* flask.session: the keys set so far and their values
    prev_session,   \* flask.session as it was when the last request arrived
    req,            \* the last request handled: route and inputs
    resp,           \* the response to it: status and body
    call,           \* arguments of perform_accessibility_scan in that request
    launched,       \* some /lti/launch of this session answered the redirect
    issued,         \* the scan ids handed out by POST /api/scan so far
    reads,          \* per scan id: the body GET /api/scan/<id> returned first
    canvas          \* the course in Canvas: its items, and those that fail

vars == <<session, prev_session, req, resp, call, launched, issued, reads, canvas>>

----------------------------------------------------------------------------
(* Bounds of the model *)

MaxItems == 2       \* content items of the course

----------------------------------------------------------------------------
(* Python / JSON values *)

None == "None"
EmptyDict == [k \in {} |-> None]
NoCall == [made |-> FALSE]
NoRead == [read |-> FALSE]

\* bool(v) for the values of the model
Truthy(v) == v \notin {None, "", "null", "false"}

\* dict.get(key, default)
DictGet(d, k, default) == IF k \in DOMAIN d THEN d[k] ELSE default

\* session.get(key)
SessionGet(s, k) == DictGet(s, k, None)

\* session[key] = value
SessionSet(s, k, v) == [x \in DOMAIN s \cup {k} |-> IF x = k THEN v ELSE s[x]]

ContextClaim == "https://purl.imsglobal.org/spec/lti/claim/context"

FlagNames == {"pages", "assignments", "announcements", "modules"}
FlagValues == {"true", "false"}
CourseIdValues == {"c1", ""}
ScanIds == {"s1", "s2"}
Formats == {"pdf", "csv"}

\* a flag is a JSON boolean and courseId a string
WellTyped(d) ==
    /\ \A k \in DOMAIN d \cap FlagNames : d[k] \in FlagValues
    /\ "courseId" \in DOMAIN d => d["courseId"] \in CourseIdValues

\* JSON object bodies of POST /api/scan: any subset of the keys
ScanBodies ==
    {d \in UNION {[K -> FlagValues \cup CourseIdValues] :
                    K \in SUBSET (FlagNames \cup {"courseId"})} : WellTyped(d)}

\* JSON bodies of POST /api/export/<scan_id>
ExportBodies == {EmptyDict} \cup {[k \in {"format"} |-> f] : f \in Formats}

\* what message_launch.get_launch_data() can return: the validated JWT body.
\* The context claim is optional; when present it is an object (with or
\* without an id) or, from a platform that sends it so, not an object.
ContextValues ==
    {[isdict |-> FALSE, d |-> EmptyDict],
     [isdict |-> TRUE, d |-> EmptyDict],
     [isdict |-> TRUE, d |-> [k \in {"id"} |-> "c1"]]}

LaunchDatas ==
    {[k \in {"sub"} |-> "u1"]} \cup
    {[k \in {"sub", ContextClaim} |-> IF k = "sub" THEN "u1" ELSE c] : c \in ContextValues}

----------------------------------------------------------------------------
(* Helper functions of the source *)

\* scan_options with the default of modules copied from the line above it
scan_options_modules_true(data) ==
    [f \in FlagNames |-> DictGet(data, f, "true")]

\* the scan options run_accessibility_scan builds from the request body
scan_options(data) ==
    [f \in FlagNames |->
        IF f = "pages" THEN DictGet(data, "pages", "true")
        ELSE IF f = "assignments" THEN DictGet(data, "assignments", "true")
        ELSE IF f = "announcements" THEN DictGet(data, "announcements", "true")
        ELSE DictGet(data, "modules", "false")]

\* the one entry of the placeholder issues list
PlaceholderIssue ==
    [type |-> "error",
     title |-> "Missing Alt Text on Images",
     description |-> "Images must have alternative text for screen readers.",
     location |-> "Page: \"Course Introduction\"",
     wcagLevel |-> "A",
     wcagCriteria |-> "1.1.1"]

\* perform_accessibility_scan: the same dict for every course and options
\* (the value of datetime.utcnow().isoformat() is left abstract)
perform_accessibility_scan(course_id, options) ==
    [passed |-> 127,
     warnings |-> 8,
     errors |-> 3,
     issues |-> <<PlaceholderIssue>>,
     timestamp |-> "utcnow"]

\* the rule evaluations perform_accessibility_scan carries out: its body
\* fetches nothing and evaluates no rule
totalRuleEvaluations == 0

\* generate_report
generate_report(scan_id, format_type) ==
    [prefix |-> "/downloads/report_", scan_id |-> scan_id, ext |-> format_type]

\* the scan ids a response body of POST /api/scan hands to the caller
ScanIdsIn(body) == IF "scan_id" \in DOMAIN body THEN {body["scan_id"]} ELSE {}

\* jsonify({'error': ...}), status
ErrorResponse(status, message) == [status |-> status, body |-> [error |-> message]]

----------------------------------------------------------------------------
(* State *)

Courses == {[n |-> n, failed |-> F] : n \in 0..MaxItems, F \in SUBSET (1..MaxItems)}

Init ==
    /\ session = EmptyDict
    /\ prev_session = EmptyDict
    /\ req = [route |-> "none"]
    /\ resp = [status |-> 0, body |-> EmptyDict]
    /\ call = NoCall
    /\ launched = FALSE
    /\ issued = {}
    /\ reads = [id \in ScanIds |-> NoRead]
    /\ canvas \in {c \in Courses : c.failed \subseteq 1..c.n}

----------------------------------------------------------------------------
(* Route handlers *)

\* /lti/login: ok is whether ToolConfJsonFile, FlaskOIDCLogin and
\* oidc_login.redirect get through without raising
lti_login(ok) ==
    /\ req' = [route |-> "lti_login"]
    /\ resp' = IF ok THEN [status |-> 302, body |-> [redirect |-> "platform"]]
                     ELSE ErrorResponse(500, "Login failed")
    /\ prev_session' = session
    /\ call' = NoCall
    /\ UNCHANGED <<session, launched, issued, reads, canvas>>

\* /lti/launch where the library raises before get_launch_data() returns
\* (no config file, bad state, nonce, signature, deployment or message)
lti_launch_rejected ==
    /\ req' = [route |-> "lti_launch"]
    /\ resp' = ErrorResponse(500, "Launch failed")
    /\ prev_session' = session
    /\ call' = NoCall
    /\ UNCHANGED <<session, launched, issued, reads, canvas>>

\* /lti/launch where get_launch_data() returns launch_data.  The three
\* session assignments run in order; the second raises AttributeError when
\* the context claim is present and is not an object, and the except
\* clause then answers 500 with the first assignment already made.
lti_launch(launch_data) ==
    LET s1 == SessionSet(session, "launch_data", launch_data)
        ctx == DictGet(launch_data, ContextClaim, [isdict |-> TRUE, d |-> EmptyDict])
        s2 == SessionSet(s1, "course_id", DictGet(ctx.d, "id", None))
        s3 == SessionSet(s2, "user_id", DictGet(launch_data, "sub", None))
    IN  /\ req' = [route |-> "lti_launch"]
        /\ prev_session' = session
        /\ call' = NoCall
        /\ IF ctx.isdict
              THEN /\ session' = s3
                   /\ resp' = [status |-> 302, body |-> [redirect |-> "index"]]
                   /\ launched' = TRUE
              ELSE /\ session' = s1
                   /\ resp' = ErrorResponse(500, "Launch failed")
                   /\ UNCHANGED launched
        /\ UNCHANGED <<issued, reads, canvas>>

\* /
index ==
    /\ req' = [route |-> "index"]
    /\ resp' = IF "launch_data" \notin DOMAIN session
                 THEN [status |-> 403, body |-> [text |-> "Unauthorized. Please launch from Canvas."]]
                 ELSE [status |-> 200, body |-> [html |-> "lti_tool.html"]]
    /\ prev_session' = session
    /\ call' = NoCall
    /\ UNCHANGED <<session, launched, issued, reads, canvas>>

\* POST /api/scan.  isjson: the body is a JSON object (otherwise get_json()
\* raises, or returns None and data.get raises).
run_accessibility_scan(isjson, data) ==
    LET sid == SessionGet(session, "course_id")
        course_id == IF Truthy(sid) THEN sid ELSE DictGet(data, "courseId", None)
        options == scan_options(data)
        results == perform_accessibility_scan(course_id, options)
    IN  /\ req' = [route |-> "scan", isjson |-> isjson, data |-> data]
        /\ prev_session' = session
        /\ IF ~isjson
              THEN /\ resp' = ErrorResponse(500, "exception")
                   /\ call' = NoCall
                   /\ UNCHANGED issued
              ELSE IF ~Truthy(course_id)
              THEN /\ resp' = ErrorResponse(400, "Course ID required")
                   /\ call' = NoCall
                   /\ UNCHANGED issued
              ELSE /\ call' = [made |-> TRUE, course_id |-> course_id, options |-> options]
                   /\ resp' = [status |-> 200, body |-> results]
                   /\ issued' = issued \cup ScanIdsIn(results)
        /\ UNCHANGED <<session, launched, reads, canvas>>

\* GET /api/scan/<scan_id>
get_scan_results(scan_id) ==
    LET results == [scan_id |-> scan_id, status |-> "completed", results |-> EmptyDict]
    IN  /\ req' = [route |-> "get_scan", scan_id |-> scan_id]
        /\ resp' = [status |-> 200, body |-> results]
        /\ reads' = IF reads[scan_id] = NoRead
                      THEN [reads EXCEPT ![scan_id] = [read |-> TRUE, body |-> results]]
                      ELSE reads
        /\ prev_session' = session
        /\ call' = NoCall
        /\ UNCHANGED <<session, launched, issued, canvas>>

\* POST /api/export/<scan_id>
export_report(scan_id, isjson, data) ==
    LET report_format == DictGet(data, "format", "pdf")
        report_url == generate_report(scan_id, report_format)
    IN  /\ req' = [route |-> "export", scan_id |-> scan_id, isjson |-> isjson, data |-> data]
        /\ resp' = IF ~isjson
                     THEN ErrorResponse(500, "exception")
                     ELSE [status |-> 200,
                           body |-> [success |-> "true", download_url |-> report_url]]
        /\ prev_session' = session
        /\ call' = NoCall
        /\ UNCHANGED <<session, launched, issued, reads, canvas>>

Next ==
    \/ \E ok \in BOOLEAN : lti_login(ok)
    \/ lti_launch_rejected
    \/ \E launch_data \in LaunchDatas : lti_launch(launch_data)
    \/ index
    \/ \E data \in ScanBodies : run_accessibility_scan(TRUE, data)
    \/ run_accessibility_scan(FALSE, EmptyDict)
    \/ \E scan_id \in ScanIds : get_scan_results(scan_id)
    \/ \E scan_id \in ScanIds, data \in ExportBodies : export_report(scan_id, TRUE, data)
    \/ \E scan_id \in ScanIds : export_report(scan_id, FALSE, EmptyDict)

Spec == Init /\ [][Next]_vars

----------------------------------------------------------------------------
(* Vocabulary of the properties *)

ScanAnswered == req.route = "scan" /\ resp.status = 200

\* the severity of an issue: the key the source files it under is "type"
Severity(issue) == DictGet(issue, "severity", DictGet(issue, "type", None))

CountSeverity(issues, sev) ==
    Cardinality({i \in 1..Len(issues) : Severity(issues[i]) = sev})

IsFailureIssue(issue) ==
    /\ "ruleId" \in DOMAIN issue
    /\ issue["ruleId"] \in {"fetch-failure", "parse-failure"}
    /\ Severity(issue) = "error"

CountFailures(issues) ==
    Cardinality({i \in 1..Len(issues) : IsFailureIssue(issues[i])})

AllItemsFailed == canvas.n > 0 /\ canvas.failed = 1..canvas.n

TerminalStatus == {"completed", "failed"}

\* the flag a request asks for, by the defaults of the specification
RequestedFlag(data, f) ==
    IF f \in DOMAIN data THEN data[f]
    ELSE IF f = "modules" THEN "false" ELSE "true"

SessionKeys == {"launch_data", "course_id", "user_id"}

----------------------------------------------------------------------------
(* Properties *)

\* C1: POST /api/scan is non-blocking: whenever it answers, the answer
\* carries a scan identifier and the ScanResult's status is running; the
\* finished result is never part of the initiating call's answer.
C1_StartScanNonBlocking ==
    ScanAnswered =>
        /\ "scan_id" \in DOMAIN resp.body
        /\ "status" \in DOMAIN resp.body
        /\ resp.body["status"] = "running"
        /\ "issues" \notin DOMAIN resp.body

\* C2: in every scan result, warnings is the number of issues of severity
\* warning and errors is the number of issues of severity error.
C2_CountsMatchIssues ==
    ScanAnswered =>
        /\ resp.body["warnings"] = CountSeverity(resp.body["issues"], "warning")
        /\ resp.body["errors"] = CountSeverity(resp.body["issues"], "error")

\* C3: for every scan with at least one content-type flag true,
\* passed + warnings + errors equals the number of rule evaluations
\* performed and the number of issues does not exceed it.
C3_CountsSumToEvaluations ==
    (ScanAnswered /\ \E f \in FlagNames : call.options[f] = "true") =>
        /\ resp.body["passed"] + resp.body["warnings"] + resp.body["errors"]
              = totalRuleEvaluations
        /\ Len(resp.body["issues"]) <= totalRuleEvaluations

\* C4: partial failure: each content item that fails to fetch or parse
\* contributes exactly one error-severity failure issue; the scan's status is
\* completed unless every item failed, and then it is failed and the issues
\* are failure records only.
C4_PartialFailure ==
    ScanAnswered =>
        /\ CountFailures(resp.body["issues"]) = Cardinality(canvas.failed)
        /\ AllItemsFailed =>
              \A i \in 1..Len(resp.body["issues"]) : IsFailureIssue(resp.body["issues"][i])
        /\ "status" \in DOMAIN resp.body
        /\ resp.body["status"] = IF AllItemsFailed THEN "failed" ELSE "completed"

\* C5: GET /api/scan/<scan_id> answers with a ScanResult only for a scan id
\* that an earlier POST /api/scan produced, and with not-found for every
\* other scan id.
C5_UnknownScanNotFound ==
    req.route = "get_scan" =>
        IF req.scan_id \in issued THEN resp.status = 200 ELSE resp.status = 404

\* C6: a scan request whose four content-type flags are all false is
\* answered with an error and performs no scan.
C6_NoFlagsRejected ==
    (req.route = "scan" /\ req.isjson
        /\ \A f \in FlagNames : RequestedFlag(req.data, f) = "false") =>
        /\ resp.status >= 400
        /\ ~call.made

\* C8: each answered scan gets a scan id that no earlier scan got; a
\* ScanResult read with a terminal status reads the same ever after; the
\* status read is one of running, completed, failed.
C8_Step ==
    /\ (req'.route = "scan" /\ resp'.status = 200) =>
          \E id \in ScanIdsIn(resp'.body) : id \notin issued
    /\ \A id \in ScanIds :
          (reads[id] # NoRead /\ reads[id].body["status"] \in TerminalStatus) =>
              /\ reads'[id] = reads[id]
              /\ (req'.route = "get_scan" /\ req'.scan_id = id) => resp'.body = reads[id].body
    /\ req'.route = "get_scan" =>
          resp'.body["status"] \in TerminalStatus \cup {"running"}

C8_TerminalImmutable == [][C8_Step]_vars

\* C9: the options passed to the scan are, for each flag, the value the
\* request supplies, and for each flag it omits the default: true for pages,
\* assignments and announcements, false for modules.
C9_ScanOptionsDefaults ==
    call.made =>
        /\ "pages" \notin DOMAIN req.data => call.options["pages"] = "true"
        /\ "assignments" \notin DOMAIN req.data => call.options["assignments"] = "true"
        /\ "announcements" \notin DOMAIN req.data => call.options["announcements"] = "true"
        /\ "modules" \notin DOMAIN req.data => call.options["modules"] = "false"
        /\ \A f \in FlagNames \cap DOMAIN req.data : call.options[f] = req.data[f]

\* a scan was called for a request that supplies two flags (one true, one
\* false) and omits the other two (one of each default)
C9_Witness ==
    /\ call.made
    /\ DOMAIN req.data \cap FlagNames = {"assignments", "announcements"}
    /\ req.data["assignments"] = "false"
    /\ req.data["announcements"] = "true"
    /\ call.options = [pages |-> "true", assignments |-> "false",
                       announcements |-> "true", modules |-> "false"]

\* C10: / is served only after some /lti/launch of the session answered the
\* redirect, and answers 403 otherwise; a /lti/launch that answers 500
\* leaves launch_data, course_id and user_id of the session as they were.
C10_LaunchGating ==
    /\ (req.route = "index" /\ resp.status = 200) => launched
    /\ (req.route = "index" /\ ~launched) => resp.status = 403
    /\ (req.route = "lti_launch" /\ resp.status = 500) =>
          \A k \in SessionKeys :
             /\ (k \in DOMAIN session) = (k \in DOMAIN prev_session)
             /\ k \in DOMAIN session => session[k] = prev_session[k]

====
